---- MODULE Spec2Model ----
(***************************************************************************)
(* Model of the self-balancing machine simulation (src/src/simulation.py)  *)
(* and of its controllers (src/src/Controller.py).                         *)
(*                                                                         *)
(* Python floats are represented as fixed-point integers:                  *)
(*   angles, angular velocities, torques   1/Scale  (1e-5 rad, rad/s, N m) *)
(*   angular acceleration                  1/Scale  rad/s^2                *)
(*   masses, lengths, gravity, inertia     1/Milli  (g, mm, mm/s^2)        *)
(*   time and dt                           milliseconds                    *)
(*   x velocity                            m/s                             *)
(*   x position                            mm  (= m/s * ms)                *)
(*   controller integral                   1e-5 rad * ms                   *)
(* Products and quotients are truncated toward zero at that resolution.    *)
(***************************************************************************)
EXTENDS Integers, Sequences, FiniteSets, TLC

Scale == 10 ^ 5
Milli == 10 ^ 3

(* ---------------- bounds of the model ---------------- *)
MaxFrames == 22
MaxEvents == 2
MaxEventsPerFrame == 2
MaxCalls == 3
MaxClosedTicks == 2000
MaxKeyFrames == 3
MaxKeyEvents == 3
MaxUndrivenTicks == 125

(* ---------------- simulation parameters ---------------- *)
M_BODY == 1000
L_BODY == 1500
G == 9810
DT == 10
MOVE_SPEED == 2
HORIZONTAL_TORQUE_EFFECT == 20
PI == 314159

(* ---------------- controller defaults ---------------- *)
KP_DEFAULT == 800
KI_DEFAULT == 50
KD_DEFAULT == 10

(* ---------------- float arithmetic ---------------- *)
Abs(x) == IF x < 0 THEN -x ELSE x

Neg3(a, b, c) == ((a < 0) # (b < 0)) # (c < 0)

\* a * b / c for a, b >= 0 and c > 0, without exceeding the integer range
MulDivNN(a, b, c) == (a \div c) * b + ((a % c) * b) \div c

\* a * b / c, truncated toward zero
MulDiv(a, b, c) ==
    LET m == MulDivNN(Abs(a), Abs(b), Abs(c))
    IN  IF Neg3(a, b, c) THEN -m ELSE m

\* a * b for two values of resolution 1/Scale
FMulNN(a, b) == (a * (b \div Milli)) \div (Scale \div Milli) + (a * (b % Milli)) \div Scale

FMul(a, b) ==
    LET m == FMulNN(Abs(a), Abs(b))
    IN  IF (a < 0) # (b < 0) THEN -m ELSE m

\* math.sin on [0, pi/2]: Taylor polynomial up to x^9 in Horner form
SinPoly(x) ==
    LET x2 == FMul(x, x)
        t4 == Scale - x2 \div 72
        t3 == Scale - FMul(x2, t4) \div 42
        t2 == Scale - FMul(x2, t3) \div 20
        t1 == Scale - FMul(x2, t2) \div 6
    IN  FMul(x, t1)

\* math.sin for |x| <= pi
Sin(x) ==
    LET a == Abs(x)
        r == IF a > PI \div 2 THEN PI - a ELSE a
        s == SinPoly(r)
    IN  IF x < 0 THEN -s ELSE s

\* math.radians of a whole number of degrees
Radians(deg) == MulDiv(deg, PI, 180)

\* math.degrees, in hundredths of a degree (the :.2f of the tip message)
Degrees(th) == MulDiv(th * 180, 100, PI)

I_BODY == ((M_BODY * ((L_BODY * L_BODY) \div Milli)) \div Milli) \div 3

MAX_ANGLE_TIPPING_RAD == Radians(90)

InitialAnglesDeg == {-45, 0, 45}

ClosedLoopAnglesDeg == {-45, -30, -10, 0, 10, 30, 45}

UndrivenAnglesDeg == {-45, -10, -1, 1, 10, 45}

(* ---------------- state ---------------- *)
VARIABLES
    \* simulation.py
    theta, theta_dot, x_position_meters, x_velocity_meters_per_sec,
    time, tipped, running, horizontal_movement_command,
    tip_prints,         \* the tip messages printed so far
    \* Controller.py: the controller object and its last call
    kind, K_p, K_i, K_d, integral, previous_error,
    last_theta, last_dt, last_ret, raised,
    \* history
    frames,             \* loop iterations executed
    run_ticks,          \* loop iterations that started with tipped = FALSE
    events_seen,        \* events processed so far
    lead_plus,          \* number of leading iterations with command +1
    lead_phase,         \* "lead", "zero" (the iteration right after the run, command 0), "off"
    n_calls,            \* control_torque calls on the controller object
    same_args,          \* all calls so far had the same (theta, dt)
    theta0,             \* the initial angle
    event_log,          \* every event processed so far (recorded by SpecKeys)
    last_events,        \* the events of the last iteration (recorded by SpecKeys)
    sum_theta_dt        \* sum of theta * dt over the control_torque calls

simVars == <<theta, theta_dot, x_position_meters, x_velocity_meters_per_sec,
             time, tipped, running, horizontal_movement_command, tip_prints>>
ctrlVars == <<kind, K_p, K_i, K_d, integral, previous_error,
              last_theta, last_dt, last_ret, raised>>
histVars == <<frames, run_ticks, events_seen, lead_plus, lead_phase,
              n_calls, same_args, theta0, event_log, last_events, sum_theta_dt>>
keyVars == <<event_log, last_events>>
vars == <<simVars, ctrlVars, histVars>>

(* ---------------- simulation.py: the loop ---------------- *)
Events == {"QUIT", "KEYDOWN_a", "KEYDOWN_d", "KEYDOWN_other", "KEYUP_a", "KEYUP_d"}

EventSeqs(n) == UNION {[1..k -> Events] : k \in 0..n}

\* a key release that stops only the movement of its own key
HandleCommand_matching(cmd, ev) ==
    CASE ev = "KEYDOWN_a" -> -1
      [] ev = "KEYDOWN_d" -> 1
      [] ev = "KEYUP_a" -> IF cmd = -1 THEN 0 ELSE cmd
      [] ev = "KEYUP_d" -> IF cmd = 1 THEN 0 ELSE cmd
      [] OTHER -> cmd

\* lines 85-94: one event
HandleCommand(cmd, ev) ==
    CASE ev = "KEYDOWN_a" -> -1
      [] ev = "KEYDOWN_d" -> 1
      [] ev \in {"KEYUP_a", "KEYUP_d"} -> 0
      [] OTHER -> cmd

\* the loop over the events left after its first event
ProcessEvents_firstOnly(cmd, evs) ==
    IF evs = <<>> THEN cmd ELSE HandleCommand(cmd, Head(evs))

RECURSIVE ProcessEvents(_, _)
ProcessEvents(cmd, evs) ==
    IF evs = <<>> THEN cmd
    ELSE ProcessEvents(HandleCommand(cmd, Head(evs)), Tail(evs))

HasQuit(evs) == \E i \in 1..Len(evs) : evs[i] = "QUIT"

\* the integration block without its guard
StepEnabled_always(tp) == TRUE

\* line 96
StepEnabled(tp) == ~tp

\* line 98
XVelocity(cmd) == cmd * MOVE_SPEED

\* gravity torque with the sign of a hanging pendulum
TauGravity_restoring(th) ==
    MulDiv((((M_BODY * G) \div Milli) * L_BODY) \div Milli, -Sin(th), Milli)

\* line 101
TauGravity(th) ==
    MulDiv((((M_BODY * G) \div Milli) * L_BODY) \div Milli, Sin(th), Milli)

\* the torque with the sign of the command
TauCommand_positive(cmd) == cmd * HORIZONTAL_TORQUE_EFFECT * Scale

\* line 107
TauCommand(cmd) == (-cmd) * HORIZONTAL_TORQUE_EFFECT * Scale

\* lines 110-113
ThetaDoubleDot(th, tau_corrective) ==
    MulDiv(TauGravity(th) + tau_corrective, Milli, I_BODY)

\* line 116
NextThetaDot(th, thd, tau_corrective) ==
    thd + MulDiv(ThetaDoubleDot(th, tau_corrective), DT, Milli)

\* the angle advanced with the velocity of before the tick
NextTheta_oldVelocity(th, thd_new) == th + MulDiv(theta_dot, DT, Milli)

\* line 117
NextTheta(th, thd_new) == th + MulDiv(thd_new, DT, Milli)

\* assignment instead of +=
NextX_assign(x, v) == v * DT

\* line 121
NextX(x, v) == x + v * DT

\* the comparison without abs()
TippingCheck_signed(th) == th > MAX_ANGLE_TIPPING_RAD

\* line 124
TippingCheck(th) == Abs(th) > MAX_ANGLE_TIPPING_RAD

\* the message printed after time += DT
TipMessage_afterIncrement(t, th) == [time |-> t + DT, angle |-> Degrees(th)]

\* line 126
TipMessage(t, th) == [time |-> t, angle |-> Degrees(th)]

\* the print outside the if
Notify_always(prints, tipnow, t, th) == Append(prints, TipMessage(t, th))

\* lines 124-126: the print
Notify(prints, tipnow, t, th) ==
    IF tipnow THEN Append(prints, TipMessage(t, th)) ELSE prints

\* time += DT only while still running after the check
NextTime_frozenOnTip(t, tipnow) == IF tipnow THEN t ELSE t + DT

\* assignment instead of +=
NextTime_assign(t, tipnow) == DT

\* line 128
NextTime(t, tipnow) == t + DT

\* lines 82-128: one iteration of `while running` that gets the events evs
LoopBody(evs) ==
    /\ running
    /\ LET cmd == ProcessEvents(horizontal_movement_command, evs)
           thd == NextThetaDot(theta, theta_dot, TauCommand(cmd))
           th  == NextTheta(theta, thd)
           tipnow == TippingCheck(th)
       IN  /\ horizontal_movement_command' = cmd
           /\ running' = ~HasQuit(evs)
           /\ IF StepEnabled(tipped)
              THEN /\ x_velocity_meters_per_sec' = XVelocity(cmd)
                   /\ theta_dot' = thd
                   /\ theta' = th
                   /\ x_position_meters' = NextX(x_position_meters, XVelocity(cmd))
                   /\ tipped' = (tipped \/ tipnow)
                   /\ tip_prints' = Notify(tip_prints, tipnow, time, th)
                   /\ time' = NextTime(time, tipnow)
              ELSE UNCHANGED <<x_velocity_meters_per_sec, theta_dot, theta,
                               x_position_meters, tipped, tip_prints, time>>
           /\ frames' = frames + 1
           /\ run_ticks' = IF tipped THEN run_ticks ELSE run_ticks + 1
           /\ events_seen' = events_seen + Len(evs)
           /\ lead_phase' =
                  IF lead_phase = "lead" /\ cmd = 1 THEN "lead"
                  ELSE IF lead_phase = "lead" /\ cmd = 0 THEN "zero"
                  ELSE "off"
           /\ lead_plus' = IF lead_phase = "lead" /\ cmd = 1
                           THEN lead_plus + 1 ELSE lead_plus
    /\ UNCHANGED ctrlVars
    /\ UNCHANGED <<n_calls, same_args, theta0, sum_theta_dt>>

LoopIteration(evs) ==
    /\ frames < MaxFrames
    /\ events_seen + Len(evs) <= MaxEvents
    /\ LoopBody(evs)
    /\ UNCHANGED keyVars

\* an iteration whose events are recorded
KeysIteration(evs) ==
    /\ frames < MaxKeyFrames
    /\ events_seen + Len(evs) <= MaxKeyEvents
    /\ LoopBody(evs)
    /\ event_log' = event_log \o evs
    /\ last_events' = evs

\* an iteration in which pygame.event.get() returns nothing
UndrivenTick ==
    /\ frames < MaxUndrivenTicks
    /\ LoopBody(<<>>)
    /\ UNCHANGED keyVars

(* ---------------- Controller.py ---------------- *)
ThetaInputs == {Radians(-30), 0, 1, Radians(30)}
DtInputs == {-DT, 0, DT, 2 * DT}
KpValues == {KP_DEFAULT, 3}
KiValues == {KI_DEFAULT, 0}
KdValues == {KD_DEFAULT}

\* lines 44-45, 76-77, 113-114: theta_error = theta - theta_goal
ThetaError(th) == th - 0

\* lines 46-47
P_control_torque(kp, th) == ThetaError(th) * kp

\* assignment instead of +=
PI_Integral_assign(acc, th, dt) == ThetaError(th) * dt

\* line 78
PI_Integral(acc, th, dt) == acc + ThetaError(th) * dt

\* lines 79-80, given the updated integral
PI_Torque(kp, ki, acc, th) == ThetaError(th) * kp + MulDiv(acc, ki, Milli)

\* line 115
PID_Integral(acc, th, dt) == acc + ThetaError(th) * dt

\* the division without its guard
DerivativeGuard_none(dt) == TRUE

\* line 116: the condition of the conditional expression
DerivativeGuard(dt) == dt > 0

\* the derivative of the error itself, previous_error ignored
PID_Derivative_noPrevious(prev, th, dt) == MulDiv(ThetaError(th), Milli, dt)

\* line 116: the division; dt in ms, the quotient per second
PID_Derivative(prev, th, dt) == MulDiv(ThetaError(th) - prev, Milli, dt)

\* line 117, given the updated integral and the derivative
PID_Torque(kp, ki, kd, acc, deriv, th) ==
    ThetaError(th) * kp + MulDiv(acc, ki, Milli) + deriv * kd

CallHistory(th, dt) ==
    /\ n_calls' = n_calls + 1
    /\ same_args' = (same_args /\ (n_calls = 0 \/ (th = last_theta /\ dt = last_dt)))
    /\ last_theta' = th
    /\ last_dt' = dt
    /\ sum_theta_dt' = sum_theta_dt + th * dt
    /\ UNCHANGED keyVars

\* ProportionalController.control_torque(theta)
PCall(th) ==
    /\ kind = "P"
    /\ n_calls < MaxCalls
    /\ last_ret' = P_control_torque(K_p, th)
    /\ CallHistory(th, 0)
    /\ UNCHANGED <<kind, K_p, K_i, K_d, integral, previous_error, raised>>
    /\ UNCHANGED simVars
    /\ UNCHANGED <<frames, run_ticks, events_seen, lead_plus, lead_phase, theta0>>

\* PIController.control_torque(theta, dt)
PICall(th, dt) ==
    /\ kind = "PI"
    /\ n_calls < MaxCalls
    /\ integral' = PI_Integral(integral, th, dt)
    /\ last_ret' = PI_Torque(K_p, K_i, integral', th)
    /\ CallHistory(th, dt)
    /\ UNCHANGED <<kind, K_p, K_i, K_d, previous_error, raised>>
    /\ UNCHANGED simVars
    /\ UNCHANGED <<frames, run_ticks, events_seen, lead_plus, lead_phase, theta0>>

\* The effect of PIDController.control_torque(theta, dt) on the controller:
\* a division by dt = 0 raises ZeroDivisionError after line 115 has run.
PIDEffect(th, dt) ==
    /\ integral' = PID_Integral(integral, th, dt)
    /\ IF DerivativeGuard(dt) /\ dt = 0
       THEN /\ raised' = TRUE
            /\ UNCHANGED <<last_ret, previous_error>>
       ELSE LET deriv == IF DerivativeGuard(dt)
                         THEN PID_Derivative(previous_error, th, dt) ELSE 0
            IN  /\ last_ret' = PID_Torque(K_p, K_i, K_d, integral', deriv, th)
                /\ previous_error' = ThetaError(th)
                /\ UNCHANGED raised

\* PIDController.control_torque(theta, dt)
PIDCall(th, dt) ==
    /\ kind = "PID"
    /\ ~raised
    /\ n_calls < MaxCalls
    /\ PIDEffect(th, dt)
    /\ CallHistory(th, dt)
    /\ UNCHANGED <<kind, K_p, K_i, K_d>>
    /\ UNCHANGED simVars
    /\ UNCHANGED <<frames, run_ticks, events_seen, lead_plus, lead_phase, theta0>>

CtrlIdle ==
    /\ kind = "none" /\ K_p = 0 /\ K_i = 0 /\ K_d = 0
    /\ integral = 0 /\ previous_error = 0
    /\ last_theta = 0 /\ last_dt = 0 /\ last_ret = 0 /\ raised = FALSE
    /\ n_calls = 0 /\ same_args = TRUE /\ sum_theta_dt = 0

\* __init__ of the three controllers (lines 31-32, 60-63, 95-100)
CtrlStart ==
    /\ kind \in {"P", "PI", "PID"}
    /\ K_p \in KpValues
    /\ K_i \in IF kind = "P" THEN {0} ELSE KiValues
    /\ K_d \in IF kind = "PID" THEN KdValues ELSE {0}
    /\ integral = 0 /\ previous_error = 0
    /\ last_theta = 0 /\ last_dt = 0 /\ last_ret = 0 /\ raised = FALSE
    /\ n_calls = 0 /\ same_args = TRUE /\ sum_theta_dt = 0

\* lines 29-35, 75-80
SimStartFrom(degs) ==
    /\ theta0 \in {Radians(d) : d \in degs}
    /\ theta = theta0
    /\ theta_dot = 0
    /\ x_position_meters = 0
    /\ x_velocity_meters_per_sec = 0
    /\ time = 0
    /\ tipped = FALSE
    /\ running = TRUE
    /\ horizontal_movement_command = 0
    /\ tip_prints = <<>>
    /\ frames = 0 /\ run_ticks = 0 /\ events_seen = 0
    /\ lead_plus = 0 /\ lead_phase = "lead"
    /\ event_log = <<>> /\ last_events = <<>>

SimStart == SimStartFrom(InitialAnglesDeg)

SimIdle ==
    /\ theta0 = 0
    /\ theta = 0
    /\ theta_dot = 0
    /\ x_position_meters = 0
    /\ x_velocity_meters_per_sec = 0
    /\ time = 0
    /\ tipped = FALSE
    /\ running = FALSE
    /\ horizontal_movement_command = 0
    /\ tip_prints = <<>>
    /\ frames = 0 /\ run_ticks = 0 /\ events_seen = 0
    /\ lead_plus = 0 /\ lead_phase = "off"
    /\ event_log = <<>> /\ last_events = <<>>

(* ---------------- the simulation ---------------- *)
Init == SimStart /\ CtrlIdle

\* the events one call of pygame.event.get() may return, within the bounds
EventBudget ==
    IF MaxEvents - events_seen < MaxEventsPerFrame
    THEN MaxEvents - events_seen ELSE MaxEventsPerFrame

Next == \E evs \in EventSeqs(EventBudget) : LoopIteration(evs)

Spec == Init /\ [][Next]_vars

(* ---------------- the loop with its key events recorded ---------------- *)
KeysBudget ==
    IF MaxKeyEvents - events_seen < MaxEventsPerFrame
    THEN MaxKeyEvents - events_seen ELSE MaxEventsPerFrame

NextKeys == \E evs \in EventSeqs(KeysBudget) : KeysIteration(evs)

SpecKeys == Init /\ [][NextKeys]_vars

(* ---------------- the loop left alone ---------------- *)
InitUndriven == SimStartFrom(UndrivenAnglesDeg) /\ CtrlIdle

NextUndriven == UndrivenTick

SpecUndriven == InitUndriven /\ [][NextUndriven]_vars

(* ---------------- the controllers on their own ---------------- *)
InitCtrl == SimIdle /\ CtrlStart

NextCtrl ==
    \/ \E th \in ThetaInputs : PCall(th)
    \/ \E th \in ThetaInputs, dt \in DtInputs : PICall(th, dt)
    \/ \E th \in ThetaInputs, dt \in DtInputs : PIDCall(th, dt)

SpecCtrl == InitCtrl /\ [][NextCtrl]_vars

(* ---------------- the loop driven by a PID controller ---------------- *)
\* The loop body (lines 96-128) with the corrective torque of line 107 taken
\* from PIDController.control_torque(theta, DT); no key is pressed.
ClosedLoopTick ==
    /\ running
    /\ StepEnabled(tipped)
    /\ run_ticks < MaxClosedTicks
    /\ ~raised
    /\ PIDEffect(theta, DT)
    /\ CallHistory(theta, DT)
    /\ LET thd == NextThetaDot(theta, theta_dot, last_ret')
           th  == NextTheta(theta, thd)
           tipnow == TippingCheck(th)
       IN  /\ x_velocity_meters_per_sec' = XVelocity(horizontal_movement_command)
           /\ theta_dot' = thd
           /\ theta' = th
           /\ x_position_meters' =
                  NextX(x_position_meters, XVelocity(horizontal_movement_command))
           /\ tipped' = (tipped \/ tipnow)
           /\ tip_prints' = Notify(tip_prints, tipnow, time, th)
           /\ time' = NextTime(time, tipnow)
    /\ frames' = frames + 1
    /\ run_ticks' = run_ticks + 1
    /\ UNCHANGED <<kind, K_p, K_i, K_d, running, horizontal_movement_command,
                   events_seen, lead_plus, lead_phase, theta0>>

InitClosedLoop ==
    /\ SimStartFrom(ClosedLoopAnglesDeg)
    /\ kind = "PID"
    /\ K_p = KP_DEFAULT /\ K_i = KI_DEFAULT /\ K_d = KD_DEFAULT
    /\ integral = 0 /\ previous_error = 0
    /\ last_theta = 0 /\ last_dt = 0 /\ last_ret = 0 /\ raised = FALSE
    /\ n_calls = 0 /\ same_args = TRUE /\ sum_theta_dt = 0

NextClosedLoop == ClosedLoopTick

SpecClosedLoop == InitClosedLoop /\ [][NextClosedLoop]_vars

(* ======================= claims ======================= *)

\* C1: once tipped is true, every later loop iteration, whatever key events
\* it processes, leaves theta, theta_dot, x_position and elapsed time
\* unchanged, and tipped stays true.
C1_TippedIsFrozen ==
    [][tipped => /\ tipped'
                 /\ theta' = theta
                 /\ theta_dot' = theta_dot
                 /\ x_position_meters' = x_position_meters
                 /\ time' = time]_vars

\* C1 witness: iterations ran after the tip and a later key event changed
\* the command (the velocity shown is no longer command * MOVE_SPEED).
C1_Witness ==
    /\ tipped
    /\ frames > run_ticks + 1
    /\ x_velocity_meters_per_sec # horizontal_movement_command * MOVE_SPEED

\* C2 (as claimed): ProportionalController.control_torque(theta) returns
\* -K_p * theta and leaves the controller as constructed.
C2_ReturnsMinusKpTheta ==
    (kind = "P" /\ n_calls > 0) =>
        /\ last_ret = -(K_p * last_theta)
        /\ integral = 0 /\ previous_error = 0

\* C3: after every completed loop iteration tipped is true exactly when the
\* integrated theta exceeds the tipping threshold in magnitude.
C3_TippedIffBeyondThreshold ==
    tipped <=> (Abs(theta) > MAX_ANGLE_TIPPING_RAD)

\* C3 witness: the tick just completed tipped the machine to the negative side.
C3_Witness ==
    /\ tipped
    /\ frames = run_ticks
    /\ theta < -MAX_ANGLE_TIPPING_RAD

\* C4 (as claimed): with the PID controller (800, 50, 10) supplying the
\* corrective torque from theta = 30 degrees, the machine never tips in the
\* first MaxClosedTicks ticks and ends closer to upright than it started.
C4_PIDKeepsUpright ==
    (theta0 = Radians(30) /\ kind = "PID") =>
        /\ ~tipped
        /\ (run_ticks = MaxClosedTicks => Abs(theta) < Radians(30))

\* C5 (as claimed): after N leading iterations with command +1 and one with
\* command 0, x_position = N * MOVE_SPEED * DT and x_velocity = 0.
C5_Original ==
    lead_phase = "zero" =>
        /\ x_position_meters = lead_plus * MOVE_SPEED * DT
        /\ x_velocity_meters_per_sec = 0

\* C5 (amended): the same, provided the machine was not tipped at the start
\* of any of those N + 1 iterations.
C5_XPositionWhileRunning ==
    (lead_phase = "zero" /\ run_ticks = frames) =>
        /\ x_position_meters = lead_plus * MOVE_SPEED * DT
        /\ x_velocity_meters_per_sec = 0

\* C5 witness: three or more +1 ticks, then the 0 tick, all while running.
C5_Witness ==
    /\ lead_phase = "zero"
    /\ run_ticks = frames
    /\ lead_plus >= 3
    /\ x_position_meters > 0

\* C6: n calls of a fresh PIController with the same theta and dt leave
\* integral = n * theta * dt and the n-th call returns
\* K_p * theta + K_i * n * theta * dt.
C6_PIIntegralAccumulates ==
    (kind = "PI" /\ n_calls >= 1 /\ same_args) =>
        /\ integral = n_calls * last_theta * last_dt
        /\ last_ret = K_p * last_theta
                      + MulDiv(n_calls * last_theta * last_dt, K_i, Milli)

\* C6 witness: three equal calls with a non-zero error, dt and K_i.
C6_Witness ==
    /\ kind = "PI"
    /\ n_calls >= 3
    /\ same_args
    /\ last_theta # 0 /\ last_dt > 0 /\ K_i # 0

\* C7: a PIDController call with dt <= 0 does not raise; its derivative term
\* is 0, so it returns K_p * theta + K_i * integral with the integral already
\* advanced by theta * dt, and previous_error becomes theta.
C7_PIDNonPositiveDt ==
    [][(kind = "PID" /\ n_calls' = n_calls + 1 /\ last_dt' <= 0) =>
          /\ ~raised'
          /\ integral' = integral + last_theta' * last_dt'
          /\ last_ret' = K_p * last_theta' + MulDiv(integral', K_i, Milli)
          /\ previous_error' = last_theta']_vars

\* C7 witness: a call with dt = 0 whose error differs from the previous one,
\* on a controller with a derivative gain.
C7_Witness ==
    /\ kind = "PID"
    /\ n_calls >= 2
    /\ last_dt = 0
    /\ last_theta = Radians(30)
    /\ K_d # 0
    /\ ~same_args
    /\ ~raised

\* C8 (as claimed): the tick that performs the Running -> Tipped transition
\* does not advance the elapsed time.
C8_Original ==
    [][(~tipped /\ tipped') => time' = time]_vars

\* C8 (amended): the tick that performs the transition advances the elapsed
\* time by DT like every other running tick; time freezes from the next
\* iteration on.
C8_TippingTickAdvancesTime ==
    [][/\ (~tipped /\ tipped') => time' = time + DT
       /\ tipped => time' = time]_vars

\* C8 witness: the tipping tick was reported at the time before its increment.
C8_Witness ==
    /\ tipped
    /\ Len(tip_prints) = 1
    /\ time = tip_prints[1].time + DT

\* C9: every iteration that starts running adds exactly DT, so the elapsed
\* time is DT times the number of iterations started with tipped = FALSE,
\* and it never decreases.
C9_TimeCountsRunningTicks ==
    /\ [](time = DT * run_ticks)
    /\ [][/\ time' >= time
          /\ (~tipped /\ frames' = frames + 1) => time' = time + DT]_vars

\* C9 witness: several running ticks followed by iterations after the tip.
C9_Witness ==
    /\ run_ticks >= 3
    /\ frames > run_ticks
    /\ time = DT * run_ticks

\* C10: the tip message is printed exactly once in a run that tips, in the
\* iteration that sets tipped, and never in a run that does not tip.
C10_OneTipMessage ==
    /\ [](Len(tip_prints) = IF tipped THEN 1 ELSE 0)
    /\ [][(tip_prints' # tip_prints) <=> (~tipped /\ tipped')]_vars

\* C10 witness: a run that tipped and kept iterating holds one message.
C10_Witness ==
    /\ tipped
    /\ frames > run_ticks
    /\ Len(tip_prints) = 1

\* C11: with command 0 and no corrective torque, a tick from a running state
\* with 0 < |theta| < pi and theta_dot zero or of the sign of theta strictly
\* increases |theta_dot| and |theta|, keeps the sign of theta, and sets
\* tipped exactly when the new |theta| exceeds 90 degrees.
C11_GravityDestabilizes ==
    [][(/\ ~tipped
        /\ frames' = frames + 1
        /\ horizontal_movement_command' = 0
        /\ theta # 0 /\ Abs(theta) < PI
        /\ \/ (theta > 0 /\ theta_dot >= 0)
           \/ (theta < 0 /\ theta_dot <= 0))
       => /\ Abs(theta_dot') > Abs(theta_dot)
          /\ Abs(theta') > Abs(theta)
          /\ (theta' > 0) = (theta > 0)
          /\ tipped' = (Abs(theta') > MAX_ANGLE_TIPPING_RAD)]_vars

\* C11 witness: released at 10 degrees, the machine fell to that side.
C11_Witness ==
    /\ theta0 = Radians(10)
    /\ tipped
    /\ theta > MAX_ANGLE_TIPPING_RAD
    /\ theta_dot > 0
    /\ horizontal_movement_command = 0

\* C13: in a running tick the angular velocity is advanced first, from the
\* net torque at the old angle, and the angle is advanced with the new
\* velocity: theta' = theta + (theta_dot + (tau_net / I_BODY) * DT) * DT.
C13_SemiImplicitEuler ==
    [][(~tipped /\ frames' = frames + 1) =>
          LET tau_net == TauGravity(theta)
                         + (-horizontal_movement_command')
                           * HORIZONTAL_TORQUE_EFFECT * Scale
              vel == theta_dot + MulDiv(MulDiv(tau_net, Milli, I_BODY), DT, Milli)
          IN  /\ theta_dot' = vel
              /\ theta' = theta + MulDiv(vel, DT, Milli)]_vars

\* C13 witness: a driven tick that started with a non-zero velocity.
C13_Witness ==
    /\ ~tipped
    /\ run_ticks >= 2
    /\ theta_dot # 0
    /\ theta # theta0
    /\ horizontal_movement_command # 0

C16_XVelocityFrozen ==
    [][/\ tipped => x_velocity_meters_per_sec' = x_velocity_meters_per_sec
       /\ (~tipped /\ tipped') =>
              x_velocity_meters_per_sec' = horizontal_movement_command' * MOVE_SPEED]_vars

\* C16 witness: tipped, the command back at 0, the velocity still non-zero.
C16_Witness ==
    /\ tipped
    /\ frames > run_ticks
    /\ horizontal_movement_command = 0
    /\ x_velocity_meters_per_sec # 0

\* C17: the time in the tip message is the elapsed time before the tipping
\* tick's increment: the frozen elapsed time minus DT, i.e. DT times the
\* number of ticks completed before the tipping tick.
C17_TipTimeBeforeIncrement ==
    tipped => /\ Len(tip_prints) = 1
              /\ tip_prints[1].time = time - DT
              /\ tip_prints[1].time = DT * (run_ticks - 1)

\* C17 witness: a tip after several ticks, reported one DT before the
\* frozen time, with iterations after it.
C17_Witness ==
    /\ tipped
    /\ run_ticks > 1
    /\ frames > run_ticks
    /\ Len(tip_prints) = 1
    /\ tip_prints[1].time > 0
    /\ tip_prints[1].time < time

\* C12: the command a tick uses is a latched value: the one set by the last
\* a/d key event of the iteration's events, the previous one when there is
\* none; it is always -1, 0 or +1, and the same value gives the x velocity
\* and the corrective torque of that tick.
C12_LatchedCommand ==
    [][frames' = frames + 1 =>
          LET evs == last_events'
              setters == {i \in 1..Len(evs) :
                            evs[i] \in {"KEYDOWN_a", "KEYDOWN_d", "KEYUP_a", "KEYUP_d"}}
              last == CHOOSE i \in setters : \A j \in setters : j <= i
              expected == IF setters = {} THEN horizontal_movement_command
                          ELSE IF evs[last] = "KEYDOWN_a" THEN -1
                          ELSE IF evs[last] = "KEYDOWN_d" THEN 1
                          ELSE 0
              cmd == horizontal_movement_command'
              tau_net == TauGravity(theta) - cmd * HORIZONTAL_TORQUE_EFFECT * Scale
          IN  /\ cmd = expected
              /\ cmd \in {-1, 0, 1}
              /\ ~tipped =>
                    /\ x_velocity_meters_per_sec' = cmd * MOVE_SPEED
                    /\ theta_dot' = theta_dot
                          + MulDiv(MulDiv(tau_net, Milli, I_BODY), DT, Milli)]_vars

\* C12 witness: two key events in one iteration, the later one used, after
\* an iteration without events that kept the command.
C12_Witness ==
    /\ last_events = <<"KEYDOWN_a", "KEYDOWN_d">>
    /\ horizontal_movement_command = 1
    /\ x_velocity_meters_per_sec = MOVE_SPEED
    /\ frames >= 2

\* C15: for a PIDController, after each call previous_error is the theta of
\* that call and integral is the sum of theta * dt over all calls; a call
\* with dt > 0 returns K_p * theta + K_i * integral
\* + K_d * (theta - theta of the previous call) / dt, the first call taking
\* 0 for the previous theta.
C15_PIDState ==
    /\ []((kind = "PID" /\ ~raised) =>
             /\ integral = sum_theta_dt
             /\ previous_error = last_theta)
    /\ [][(kind = "PID" /\ n_calls' = n_calls + 1 /\ last_dt' > 0) =>
             last_ret' = K_p * last_theta'
                         + MulDiv(integral', K_i, Milli)
                         + K_d * MulDiv(last_theta' - last_theta, Milli, last_dt')]_vars

\* C15 witness: a third call with dt > 0 whose error differs from the one
\* before, so that the derivative term is not zero.
C15_Witness ==
    /\ kind = "PID"
    /\ n_calls >= 3
    /\ last_dt > 0
    /\ ~same_args
    /\ integral # 0
    /\ previous_error = Radians(30)
    /\ last_ret # K_p * last_theta + MulDiv(integral, K_i, Milli)

\* C18: whenever the most recent a/d key event is a release, the command is
\* 0, whichever keys are still held, and it stays 0 until the next a/d key
\* press.
C18_ReleaseStops ==
    LET setters == {i \in 1..Len(event_log) :
                      event_log[i] \in {"KEYDOWN_a", "KEYDOWN_d", "KEYUP_a", "KEYUP_d"}}
        last == CHOOSE i \in setters : \A j \in setters : j <= i
    IN  (setters # {} /\ event_log[last] \in {"KEYUP_a", "KEYUP_d"})
            => horizontal_movement_command = 0

\* C18 witness: a pressed, d pressed, a released: d is still held and the
\* command is 0.
C18_Witness ==
    /\ event_log = <<"KEYDOWN_a", "KEYDOWN_d", "KEYUP_a">>
    /\ horizontal_movement_command = 0

====
